---- MODULE Spec2Model ----
(***************************************************************************)
(* A model of the js_option crate: the three-variant JsOption<T> type      *)
(* (src/src/lib.rs), its conversions, queries, unwrap family, map, as_ref, *)
(* derived comparison, and its serde Serialize / Deserialize impls         *)
(* (src/src/serde.rs) together with the documented struct-field            *)
(* configuration (#[serde(default, skip_serializing_if = is_undefined)]).  *)
(*                                                                         *)
(* The payload type T is a small Copy integer type; &T is a tagged         *)
(* reference.  Every action is one call of one operation on the current    *)
(* value self; what it returned (or the panic it raised) is kept in res,  *)
(* the number of closure invocations it made in calls.                     *)
(***************************************************************************)
EXTENDS Integers, Sequences, FiniteSets, TLC

\* ------------------------------------------------------------------ bounds
\* Payloads of type T are 0..MaxPayload.
MaxPayload == 2
\* An input document holds at most MaxDocLen key/value entries.
MaxDocLen == 1

\* ------------------------------------------------------------ value domain
Payload == 0..MaxPayload

\* A shared reference &x to a payload x.
Ref(x) == <<"&", x>>

RefPayload == {Ref(x) : x \in Payload}

\* The payloads of the two instantiations of JsOption the model uses.
Dom(t) == IF t = "T" THEN Payload ELSE RefPayload

\* Deref::deref on a payload of type t.
Deref(t, p) == IF t = "T" THEN p ELSE p[2]

\* std Option<T>.
OptionSome(v) == <<"Option", "Some", v>>

OptionNone == <<"Option", "None">>

OptionSet(D) == {OptionSome(v) : v \in D} \cup {OptionNone}

\* enum JsOption<T> { Some(T), Null, Undefined }
Some(v) == <<"JsOption", "Some", v>>

Null == <<"JsOption", "Null">>

Undefined == <<"JsOption", "Undefined">>

JsOptionSet(D) == {Some(v) : v \in D} \cup {Null, Undefined}

\* std Result<T, E>.
Ok(v) == <<"Ok", v>>

Err(e) == <<"Err", e>>

\* What a call did: returned a value, or panicked with a message.
Return(v) == [kind |-> "return", val |-> v]

Panic(msg) == [kind |-> "panic", val |-> msg]

\* ------------------------------------------------------------- messages
\* Strings the code builds, as sequences of characters.  The grave accent
\* (U+0060) that quotes names in the messages cannot be written in a TLA+
\* string; Backtick stands for that one character.
Backtick == "U+0060"

NullUnwrapMsg == <<"c", "a", "l", "l", "e", "d", " ", Backtick, "J", "s", "O", "p", "t", "i", "o", "n", ":", ":", "u", "n", "w", "r", "a", "p", "(", ")", Backtick, " ", "o", "n", " ", Backtick, "N", "u", "l", "l", Backtick>>

UndefinedUnwrapMsg == <<"c", "a", "l", "l", "e", "d", " ", Backtick, "J", "s", "O", "p", "t", "i", "o", "n", ":", ":", "u", "n", "w", "r", "a", "p", "(", ")", Backtick, " ", "o", "n", " ", Backtick, "U", "n", "d", "e", "f", "i", "n", "e", "d", Backtick>>

UndefinedSerializeMsg == <<"a", "t", "t", "e", "m", "p", "t", "e", "d", " ", "t", "o", " ", "s", "e", "r", "i", "a", "l", "i", "z", "e", " ", Backtick, "u", "n", "d", "e", "f", "i", "n", "e", "d", Backtick>>

\* ------------------------------------------------------- core operations
from_option(opt) ==
  IF opt[2] = "Some" THEN Some(opt[3]) ELSE Null

\* Fault: the absent case copied from from_option.
from_implicit_option_explicit(opt) ==
  IF opt[2] = "Some" THEN Some(opt[3]) ELSE Null

from_implicit_option(opt) ==
  IF opt[2] = "Some" THEN Some(opt[3]) ELSE Undefined

into_option(x) ==
  IF x[2] = "Some" THEN OptionSome(x[3]) ELSE OptionNone

\* Fault: both absent variants collapse to None, as in into_option.
into_nested_option_collapsing(x) ==
  IF x[2] = "Some" THEN OptionSome(OptionSome(x[3])) ELSE OptionNone

into_nested_option(x) ==
  CASE x[2] = "Some" -> OptionSome(OptionSome(x[3]))
    [] x[2] = "Null" -> OptionSome(OptionNone)
    [] x[2] = "Undefined" -> OptionNone

is_some(x) == x[2] = "Some"

\* Fault: every absent variant counts as null.
is_null_any_absent(x) == x[2] # "Some"

is_null(x) == x[2] = "Null"

is_undefined(x) == x[2] = "Undefined"

\* Fault: one message for both absent variants.
unwrap_one_message(x) ==
  IF x[2] = "Some" THEN Return(x[3]) ELSE Panic(NullUnwrapMsg)

unwrap(x) ==
  CASE x[2] = "Some" -> Return(x[3])
    [] x[2] = "Null" -> Panic(NullUnwrapMsg)
    [] x[2] = "Undefined" -> Panic(UndefinedUnwrapMsg)

unwrap_or(x, default) ==
  IF x[2] = "Some" THEN x[3] ELSE default

\* Fault: the producer is run before the match, whatever the variant.
unwrap_or_else_eager(x, produced) ==
  IF x[2] = "Some" THEN [val |-> x[3], n |-> 1]
                   ELSE [val |-> produced, n |-> 1]

\* f is a closure that returns produced; n counts its invocations.
unwrap_or_else(x, produced) ==
  IF x[2] = "Some" THEN [val |-> x[3], n |-> 0]
                   ELSE [val |-> produced, n |-> 1]

\* Fault: Null is mapped to Undefined.
map_forgetting_null(x, f) ==
  IF x[2] = "Some" THEN [val |-> Some(f[x[3]]), n |-> 1]
                   ELSE [val |-> Undefined, n |-> 0]

\* f is a closure given as a function on the payloads; n counts its invocations.
map(x, f) ==
  CASE x[2] = "Some" -> [val |-> Some(f[x[3]]), n |-> 1]
    [] x[2] = "Null" -> [val |-> Null, n |-> 0]
    [] x[2] = "Undefined" -> [val |-> Undefined, n |-> 0]

as_ref(x) ==
  CASE x[2] = "Some" -> Some(Ref(x[3]))
    [] x[2] = "Null" -> Null
    [] x[2] = "Undefined" -> Undefined

\* <T as Default>::default() of the integer payload type.
TDefault == 0

unwrap_or_default(x) == unwrap_or_else(x, TDefault)

\* Fault: the default is the explicit absence.
default_null == Null

\* impl Default for JsOption<T>
default == Undefined

\* --------------------------------------------------- derived comparison
\* Fault: Null and Undefined declared in the other order.
Discriminant_swapped(x) ==
  CASE x[2] = "Some" -> 0
    [] x[2] = "Undefined" -> 1
    [] x[2] = "Null" -> 2

\* The discriminant of a variant: its position in the enum declaration.
Discriminant(x) ==
  CASE x[2] = "Some" -> 0
    [] x[2] = "Null" -> 1
    [] x[2] = "Undefined" -> 2

IntCmp(a, b) == IF a < b THEN "Less" ELSE IF a = b THEN "Equal" ELSE "Greater"

\* Ord::cmp of two payloads of type t (a reference compares as its referent).
PayloadCmp(t, a, b) == IntCmp(Deref(t, a), Deref(t, b))

\* #[derive(PartialOrd, Ord)]: by discriminant, then by the fields.
cmp(t, a, b) ==
  IF Discriminant(a) # Discriminant(b)
    THEN IntCmp(Discriminant(a), Discriminant(b))
    ELSE IF a[2] = "Some" THEN PayloadCmp(t, a[3], b[3]) ELSE "Equal"

\* #[derive(PartialEq, Eq)]: same discriminant and equal fields.
eq(t, a, b) ==
  IF Discriminant(a) # Discriminant(b)
    THEN FALSE
    ELSE IF a[2] = "Some" THEN PayloadCmp(t, a[3], b[3]) = "Equal" ELSE TRUE

\* ------------------------------------------------------ host serializer
\* The values of the document format: null, a number, a string.
JNull == <<"null">>

JNum(n) == <<"num", n>>

JStr == <<"str">>

JsonValues == {JNull, JStr} \cup {JNum(n) : n \in Payload}

\* serde::ser::Error::custom(msg)
custom(msg) == <<"custom", msg>>

\* The error of a host serializer whose sink is broken.
HostError == <<"io">>

\* Serializer::serialize_some(v): the value-level encoding of v.  log is the
\* output methods called on the serializer, ret what the call returned.
serialize_some(fails, v) ==
  [log |-> << <<"serialize_some", v>> >>,
   ret |-> IF fails THEN Err(HostError) ELSE Ok(JNum(v))]

\* Serializer::serialize_none(): the explicit null marker.
serialize_none(fails) ==
  [log |-> << <<"serialize_none">> >>,
   ret |-> IF fails THEN Err(HostError) ELSE Ok(JNull)]

\* Fault: Undefined is written as null instead of being refused.
serialize_undefined_as_null(x, fails) ==
  IF x[2] = "Some" THEN serialize_some(fails, x[3]) ELSE serialize_none(fails)

\* impl Serialize for JsOption<T>
serialize(x, fails) ==
  CASE x[2] = "Some" -> serialize_some(fails, x[3])
    [] x[2] = "Null" -> serialize_none(fails)
    [] x[2] = "Undefined" ->
         [log |-> <<>>, ret |-> Err(custom(UndefinedSerializeMsg))]

\* ---------------------------------------------------- host deserializer
\* <T as Deserialize>::deserialize on a value of the document.
TDeserialize(j) ==
  IF j[1] = "num" THEN Ok(j[2]) ELSE Err(<<"invalid_type", j[1]>>)

\* <Option<T> as Deserialize>::deserialize: null is None, anything else is
\* handed to T.
OptionDeserialize(j) ==
  IF j[1] = "null"
    THEN Ok(OptionNone)
    ELSE LET r == TDeserialize(j)
         IN  IF r[1] = "Ok" THEN Ok(OptionSome(r[2])) ELSE r

\* Fault: the decoded Option is converted with from_implicit_option.
deserialize_implicit(j) ==
  LET r == OptionDeserialize(j)
  IN  IF r[1] = "Ok" THEN Ok(from_implicit_option(r[2])) ELSE r

\* impl Deserialize for JsOption<T>: Result::map applies from_option to an
\* Ok and hands an Err on as it is.
deserialize(j) ==
  LET r == OptionDeserialize(j)
  IN  IF r[1] = "Ok" THEN Ok(from_option(r[2])) ELSE r

\* ------------------------------------------------------------ MyStruct
\* struct MyStruct {
\*     #[serde(default, skip_serializing_if = "JsOption::is_undefined")]
\*     my_field: JsOption<T>,
\* }
\* A document is a sequence of <<key, value>> entries.
\* An entry is the field with any value, or a key MyStruct does not know.
Entries == {<<"my_field", j>> : j \in JsonValues} \cup {<<"other", JStr>>}

Docs == UNION {[1..n -> Entries] : n \in 0..MaxDocLen}

\* The derived Serialize: the field is skipped when the predicate holds,
\* and an error of the field's serialize ends the encoding.
MyStructSerialize(field, fails) ==
  IF is_undefined(field)
    THEN [log |-> <<>>, ret |-> Ok(<<>>)]
    ELSE LET r == serialize(field, fails)
         IN  IF r.ret[1] = "Ok"
               THEN [log |-> r.log, ret |-> Ok(<< <<"my_field", r.ret[2]>> >>)]
               ELSE r

\* The derived Deserialize: the visitor walks the entries; seen is the
\* Option holding the field once its key was met.
RECURSIVE VisitMap(_, _)
VisitMap(entries, seen) ==
  IF entries = <<>>
    THEN Ok([my_field |-> IF seen[2] = "None" THEN default ELSE seen[3]])
    ELSE LET e == Head(entries)
         IN  IF e[1] = "my_field"
               THEN IF seen[2] = "Some"
                      THEN Err(<<"duplicate_field", "my_field">>)
                      ELSE LET r == deserialize(e[2])
                           IN  IF r[1] = "Ok"
                                 THEN VisitMap(Tail(entries), OptionSome(r[2]))
                                 ELSE r
               ELSE VisitMap(Tail(entries), seen)

MyStructDeserialize(d) == VisitMap(d, OptionNone)

\* ------------------------------------------------------------------ state
VARIABLES
  self,     \* the JsOption value at hand
  ty,       \* its payload type: "T" or "&T"
  made,     \* the operation that constructed self
  src,      \* what that operation was given
  op,       \* the last operation called
  arg,      \* its argument
  res,      \* what it did: Return(value) or Panic(message)
  calls,    \* how often it invoked the closure it was given
  log,      \* the output methods it called on the serializer
  doc,      \* the document at hand
  docFrom,  \* "encoder" once MyStruct's Serialize wrote doc, "none" before
  orig      \* the field value the encoder was given for doc

vars == <<self, ty, made, src, op, arg, res, calls, log, doc, docFrom, orig>>

NoArg == <<>>

Call(name, a, r, n, lg) ==
  /\ op' = name
  /\ arg' = a
  /\ res' = r
  /\ calls' = n
  /\ log' = lg

Built(x, t, by, from) ==
  /\ self' = x
  /\ ty' = t
  /\ made' = by
  /\ src' = from

Kept == UNCHANGED <<self, ty, made, src>>

DocKept == UNCHANGED <<doc, docFrom, orig>>

Init ==
  /\ self = default
  /\ ty = "T"
  /\ made = "default"
  /\ src = NoArg
  /\ op = "default"
  /\ arg = NoArg
  /\ res = Return(default)
  /\ calls = 0
  /\ log = <<>>
  /\ doc = <<>>
  /\ docFrom = "none"
  /\ orig = default

\* ---------------------------------------------------------- construction
\* A variant written out by the caller.
Construct ==
  \E x \in JsOptionSet(Payload) :
    /\ Built(x, "T", "direct", NoArg)
    /\ Call("direct", NoArg, Return(x), 0, <<>>)
    /\ DocKept

FromOption ==
  \E o \in OptionSet(Payload) :
    /\ Built(from_option(o), "T", "from_option", o)
    /\ Call("from_option", o, Return(from_option(o)), 0, <<>>)
    /\ DocKept

FromImplicitOption ==
  \E o \in OptionSet(Payload) :
    /\ Built(from_implicit_option(o), "T", "from_implicit_option", o)
    /\ Call("from_implicit_option", o, Return(from_implicit_option(o)), 0, <<>>)
    /\ DocKept

DefaultNew ==
  /\ Built(default, "T", "default", NoArg)
  /\ Call("default", NoArg, Return(default), 0, <<>>)
  /\ DocKept

Map ==
  \E f \in [Dom(ty) -> Payload] :
    LET r == map(self, f)
    IN  /\ Built(r.val, "T", "map", self)
        /\ Call("map", f, Return(r.val), r.n, <<>>)
        /\ DocKept

AsRef ==
  /\ ty = "T"
  /\ Built(as_ref(self), "&T", "as_ref", self)
  /\ Call("as_ref", NoArg, Return(as_ref(self)), 0, <<>>)
  /\ DocKept

\* ------------------------------------------------- conversion and query
IntoOption ==
  /\ Call("into_option", NoArg, Return(into_option(self)), 0, <<>>)
  /\ Kept
  /\ DocKept

IntoNestedOption ==
  /\ Call("into_nested_option", NoArg, Return(into_nested_option(self)), 0, <<>>)
  /\ Kept
  /\ DocKept

\* The three queries, called one after the other on the same value.
Queries ==
  /\ Call("queries", NoArg,
          Return([is_some |-> is_some(self),
                  is_null |-> is_null(self),
                  is_undefined |-> is_undefined(self)]), 0, <<>>)
  /\ Kept
  /\ DocKept

Unwrap ==
  /\ Call("unwrap", NoArg, unwrap(self), 0, <<>>)
  /\ Kept
  /\ DocKept

UnwrapOr ==
  \E d \in Dom(ty) :
    /\ Call("unwrap_or", d, Return(unwrap_or(self, d)), 0, <<>>)
    /\ Kept
    /\ DocKept

UnwrapOrElse ==
  \E p \in Dom(ty) :
    LET r == unwrap_or_else(self, p)
    IN  /\ Call("unwrap_or_else", p, Return(r.val), r.n, <<>>)
        /\ Kept
        /\ DocKept

UnwrapOrDefault ==
  /\ ty = "T"
  /\ LET r == unwrap_or_default(self)
     IN  Call("unwrap_or_default", NoArg, Return(r.val), r.n, <<>>)
  /\ Kept
  /\ DocKept

Compare ==
  \E other \in JsOptionSet(Dom(ty)) :
    /\ Call("cmp", other,
            Return([ord |-> cmp(ty, self, other), eq |-> eq(ty, self, other)]),
            0, <<>>)
    /\ Kept
    /\ DocKept

\* ------------------------------------------------------------ the bridge
Serialize ==
  /\ ty = "T"
  /\ \E fails \in BOOLEAN :
       LET r == serialize(self, fails)
       IN  Call("serialize", fails, Return(r.ret), 0, r.log)
  /\ Kept
  /\ DocKept

Deserialize ==
  \E j \in JsonValues :
    LET r == deserialize(j)
    IN  /\ Call("deserialize", j, Return(r), 0, <<>>)
        /\ IF r[1] = "Ok" THEN Built(r[2], "T", "deserialize", NoArg) ELSE Kept
        /\ DocKept

StructSerialize ==
  /\ ty = "T"
  /\ \E fails \in BOOLEAN :
       LET r == MyStructSerialize(self, fails)
       IN  /\ Call("struct_serialize", fails, Return(r.ret), 0, r.log)
           /\ IF r.ret[1] = "Ok"
                THEN doc' = r.ret[2] /\ docFrom' = "encoder" /\ orig' = self
                ELSE DocKept
  /\ Kept

\* The document decoded is any document: the encoder's output (doc) is one.
StructDeserialize ==
  \E d \in Docs :
    LET r == MyStructDeserialize(d)
    IN  /\ Call("struct_deserialize", d, Return(r), 0, <<>>)
        /\ IF r[1] = "Ok"
             THEN Built(r[2].my_field, "T", "struct_deserialize", NoArg)
             ELSE Kept
        /\ DocKept

\* The core type: every constructor, conversion, query and accessor.
Next ==
  \/ Construct
  \/ FromOption
  \/ FromImplicitOption
  \/ DefaultNew
  \/ Map
  \/ AsRef
  \/ Deserialize
  \/ IntoOption
  \/ IntoNestedOption
  \/ Queries
  \/ Unwrap
  \/ UnwrapOr
  \/ UnwrapOrElse
  \/ UnwrapOrDefault
  \/ Compare

Spec == Init /\ [][Next]_vars

\* The format bridge: values are written out, defaulted or decoded, and
\* encoded alone or as the field of MyStruct.
NextBridge ==
  \/ Construct
  \/ DefaultNew
  \/ Serialize
  \/ Deserialize
  \/ StructSerialize
  \/ StructDeserialize

SpecBridge == Init /\ [][NextBridge]_vars

\* ------------------------------------------------------------- properties
\* Whether the string s holds the string sub.
Contains(s, sub) ==
  \E i \in 1..(Len(s) - Len(sub) + 1) : SubSeq(s, i, i + Len(sub) - 1) = sub

UndefinedWord == <<"u", "n", "d", "e", "f", "i", "n", "e", "d">>

ImplicitlyAbsentWords == <<"i", "m", "p", "l", "i", "c", "i", "t", "l", "y", " ", "a", "b", "s", "e", "n", "t">>

QuotedNull == <<Backtick, "N", "u", "l", "l", Backtick>>

QuotedUndefined == <<Backtick, "U", "n", "d", "e", "f", "i", "n", "e", "d", Backtick>>

\* The inverse correspondence of into_nested_option.
FromNested(n) ==
  IF n[2] = "None"
    THEN Undefined
    ELSE IF n[3][2] = "None" THEN Null ELSE Some(n[3][3])

\* Whether document d holds an entry for my_field.
HasField(d) == \E i \in 1..Len(d) : d[i][1] = "my_field"

\* C1: serialize maps each variant to exactly one outcome.  Some(v) calls
\* serialize_some with v, and only that, and returns what it returned; Null
\* calls serialize_none, and only that, and returns what it returned;
\* Undefined calls no output method and returns (it does not panic) a custom
\* error of the serializer whose message mentions "undefined" or
\* "implicitly absent".
C1_SerializeOutcome ==
  op = "serialize" =>
    /\ res.kind = "return"
    /\ self[2] = "Some" =>
         /\ log = << <<"serialize_some", self[3]>> >>
         /\ res.val = serialize_some(arg, self[3]).ret
    /\ self[2] = "Null" =>
         /\ log = << <<"serialize_none">> >>
         /\ res.val = serialize_none(arg).ret
    /\ self[2] = "Undefined" =>
         /\ log = <<>>
         /\ res.val[1] = "Err"
         /\ res.val[2][1] = "custom"
         /\ \/ Contains(res.val[2][2], UndefinedWord)
            \/ Contains(res.val[2][2], ImplicitlyAbsentWords)

\* Undefined was serialized with a working serializer and an error came back.
C1_Witness ==
  /\ op = "serialize"
  /\ self = Undefined
  /\ arg = FALSE
  /\ res.kind = "return"
  /\ res.val[1] = "Err"
  /\ log = <<>>

\* C2: deserialize never returns Undefined.  A null yields Null, a value that
\* decodes to v yields Some(v), and an error of Option<T>'s deserialize is
\* returned as it is.
C2_DeserializeNeverUndefined ==
  op = "deserialize" =>
    /\ res.kind = "return"
    /\ res.val[1] = "Ok" => res.val[2] # Undefined /\ self = res.val[2]
    /\ arg = JNull => res.val = Ok(Null)
    /\ (arg # JNull /\ TDeserialize(arg)[1] = "Ok") =>
         res.val = Ok(Some(TDeserialize(arg)[2]))
    /\ OptionDeserialize(arg)[1] = "Err" => res.val = OptionDeserialize(arg)

\* A null was decoded, and the value is Null.
C2_Witness ==
  /\ op = "deserialize"
  /\ arg = JNull
  /\ res.val = Ok(Null)
  /\ self = Null
  /\ made = "deserialize"

\* C3: into_nested_option maps Some(v) to Some(Some(v)), Null to Some(None)
\* and Undefined to None; no other value has the same image, and the inverse
\* correspondence gives the value back.
C3_NestedLossless ==
  op = "into_nested_option" =>
    /\ res.kind = "return"
    /\ self[2] = "Some" => res.val = OptionSome(OptionSome(self[3]))
    /\ self[2] = "Null" => res.val = OptionSome(OptionNone)
    /\ self[2] = "Undefined" => res.val = OptionNone
    /\ \A y \in JsOptionSet(Dom(ty)) : into_nested_option(y) = res.val => y = self
    /\ FromNested(res.val) = self

\* Null went to Some(None).
C3_Witness ==
  /\ op = "into_nested_option"
  /\ self = Null
  /\ res.val = OptionSome(OptionNone)

\* C4: MyStruct with #[serde(default, skip_serializing_if = is_undefined)].
\* With a serializer that works, encoding succeeds for every variant, and an
\* error can only be the serializer's own; an Undefined field leaves no
\* entry and calls no output method, any other value leaves exactly its
\* entry; a document without the field decodes to Undefined, which is the
\* Default; and decoding what the encoder wrote gives back the value encoded.
C4_StructRoundTrip ==
  /\ op = "struct_serialize" =>
       /\ res.kind = "return"
       /\ arg = FALSE => res.val[1] = "Ok"
       /\ res.val[1] = "Err" => arg = TRUE /\ res.val[2] = HostError
       /\ self = Undefined => res.val = Ok(<<>>) /\ log = <<>>
       /\ (self # Undefined /\ res.val[1] = "Ok") =>
            /\ Len(res.val[2]) = 1
            /\ res.val[2][1][1] = "my_field"
       /\ res.val[1] = "Ok" => doc = res.val[2] /\ orig = self
  /\ op = "struct_deserialize" =>
       /\ res.kind = "return"
       /\ ~HasField(arg) =>
            /\ res.val[1] = "Ok"
            /\ res.val[2].my_field = Undefined
            /\ self = Undefined
       /\ (docFrom = "encoder" /\ arg = doc) =>
            /\ res.val[1] = "Ok"
            /\ res.val[2].my_field = orig
            /\ self = orig
  /\ op = "default" => res.val = Undefined /\ self = Undefined

\* An Undefined field was encoded, left no entry, and the output was decoded.
C4_Witness ==
  /\ op = "struct_deserialize"
  /\ docFrom = "encoder"
  /\ arg = doc
  /\ doc = <<>>
  /\ orig = Undefined
  /\ self = Undefined
  /\ made = "struct_deserialize"

\* C5: into_option gives back the Option that from_option or
\* from_implicit_option was given; from_option maps None to Null and never
\* yields Undefined, from_implicit_option maps None to Undefined and never
\* yields Null; into_option maps both absent variants to None.
C5_OptionRoundTrip ==
  /\ op = "from_option" =>
       /\ arg = OptionNone => self = Null
       /\ arg[2] = "Some" => self = Some(arg[3])
       /\ self # Undefined
  /\ op = "from_implicit_option" =>
       /\ arg = OptionNone => self = Undefined
       /\ arg[2] = "Some" => self = Some(arg[3])
       /\ self # Null
  /\ op = "into_option" =>
       /\ res.kind = "return"
       /\ made \in {"from_option", "from_implicit_option"} => res.val = src
       /\ self \in {Null, Undefined} => res.val = OptionNone
       /\ self[2] = "Some" => res.val = OptionSome(self[3])

\* None went through from_implicit_option and came back from into_option.
C5_Witness ==
  /\ op = "into_option"
  /\ made = "from_implicit_option"
  /\ src = OptionNone
  /\ self = Undefined
  /\ res.val = OptionNone

\* The number of TRUE among three booleans.
TrueCount(a, b, c) ==
  (IF a THEN 1 ELSE 0) + (IF b THEN 1 ELSE 0) + (IF c THEN 1 ELSE 0)

\* C6: whichever operation constructed the value, exactly one of is_some,
\* is_null and is_undefined returns true, each for its own variant only, and
\* calling them leaves the value as it was.
C6_ExactlyOneQuery ==
  /\ [](op = "queries" =>
          /\ res.kind = "return"
          /\ TrueCount(res.val.is_some, res.val.is_null, res.val.is_undefined) = 1
          /\ res.val.is_some <=> self[2] = "Some"
          /\ res.val.is_null <=> self = Null
          /\ res.val.is_undefined <=> self = Undefined)
  /\ [][op' = "queries" => self' = self /\ ty' = ty]_vars

\* The queries were called on a Some that as_ref constructed.
C6_Witness ==
  /\ op = "queries"
  /\ made = "as_ref"
  /\ ty = "&T"
  /\ self[2] = "Some"
  /\ res.val.is_some
  /\ ~res.val.is_null
  /\ ~res.val.is_undefined

\* C7: map(f) on Some(x) yields Some(f(x)) and invokes f once; on Null it
\* yields Null, on Undefined it yields Undefined, and f is not invoked.
C7_MapProbe ==
  op = "map" =>
    /\ res.kind = "return"
    /\ self = res.val
    /\ src[2] = "Some" => res.val = Some(arg[src[3]]) /\ calls = 1
    /\ src = Null => res.val = Null /\ calls = 0
    /\ src = Undefined => res.val = Undefined /\ calls = 0

\* Null was mapped: it stayed Null and the probe stayed at 0.
C7_Witness ==
  /\ op = "map"
  /\ src = Null
  /\ self = Null
  /\ calls = 0

\* C8: unwrap returns v on Some(v) and panics on Null and on Undefined, with
\* a message that names the variant found and is not the other variant's
\* message; no other operation of the core panics.
C8_UnwrapPanics ==
  /\ op = "unwrap" =>
       /\ self[2] = "Some" => res = Return(self[3])
       /\ self = Null =>
            /\ res.kind = "panic"
            /\ Contains(res.val, QuotedNull)
            /\ ~Contains(res.val, QuotedUndefined)
            /\ res.val # unwrap(Undefined).val
       /\ self = Undefined =>
            /\ res.kind = "panic"
            /\ Contains(res.val, QuotedUndefined)
            /\ ~Contains(res.val, QuotedNull)
            /\ res.val # unwrap(Null).val
  /\ op # "unwrap" => res.kind = "return"

\* unwrap was called on Undefined and panicked.
C8_Witness ==
  /\ op = "unwrap"
  /\ self = Undefined
  /\ res.kind = "panic"
  /\ res.val = UndefinedUnwrapMsg

\* C9: unwrap_or and unwrap_or_else return v on Some(v) and the default (given,
\* or produced) on Null and on Undefined; the producer runs once on an absent
\* variant and not at all on Some; unwrap_or_default is unwrap_or_else with
\* T's default constructor.
C9_UnwrapOrFamily ==
  /\ op = "unwrap_or" =>
       /\ res.kind = "return"
       /\ res.val = IF self[2] = "Some" THEN self[3] ELSE arg
  /\ op = "unwrap_or_else" =>
       /\ res.kind = "return"
       /\ res.val = IF self[2] = "Some" THEN self[3] ELSE arg
       /\ calls = IF self[2] = "Some" THEN 0 ELSE 1
  /\ op = "unwrap_or_default" =>
       /\ res.kind = "return"
       /\ res.val = IF self[2] = "Some" THEN self[3] ELSE TDefault
       /\ calls = IF self[2] = "Some" THEN 0 ELSE 1
       /\ res.val = unwrap_or_else(self, TDefault).val
       /\ calls = unwrap_or_else(self, TDefault).n

\* unwrap_or_else on a Some whose payload is not what the producer would
\* give: the payload came back and the producer did not run.
C9_Witness ==
  /\ op = "unwrap_or_else"
  /\ self[2] = "Some"
  /\ self[3] # arg
  /\ res.val = self[3]
  /\ calls = 0

Reverse(o) ==
  CASE o = "Less" -> "Greater"
    [] o = "Equal" -> "Equal"
    [] o = "Greater" -> "Less"

\* C10: the comparison is a total order in which every Some is below Null
\* and Null below Undefined, two Some compare as their payloads, and two
\* values are equal iff they are the same variant with the same payload.
C10_TotalOrder ==
  op = "cmp" =>
    LET a == self
        b == arg
        r == res.val
    IN  /\ res.kind = "return"
        /\ (a[2] = "Some" /\ b[2] # "Some") => r.ord = "Less"
        /\ (a = Null /\ b = Undefined) => r.ord = "Less"
        /\ (a[2] = "Some" /\ b[2] = "Some") =>
             r.ord = IF Deref(ty, a[3]) < Deref(ty, b[3]) THEN "Less"
                     ELSE IF Deref(ty, a[3]) > Deref(ty, b[3]) THEN "Greater"
                     ELSE "Equal"
        /\ r.eq <=> a = b
        /\ r.eq <=> r.ord = "Equal"
        /\ cmp(ty, b, a) = Reverse(r.ord)
        /\ \A c \in JsOptionSet(Dom(ty)) :
             (r.ord = "Less" /\ cmp(ty, b, c) = "Less") => cmp(ty, a, c) = "Less"

\* Null was compared with Undefined and found less.
C10_Witness ==
  /\ op = "cmp"
  /\ self = Null
  /\ arg = Undefined
  /\ res.val.ord = "Less"
  /\ ~res.val.eq

====
